---- MODULE Spec2Model ----
(***************************************************************************)
(* Model of python_utils: the Throttle rate limiter (misc/throttle.py) and *)
(* the Timer / TimerManager statistics facility (timing/timer.py).         *)
(*                                                                         *)
(* Time is counted in integer clock ticks.  `wall` is the reading of       *)
(* time.time() (used by Throttle), `perf` the reading of                   *)
(* time.perf_counter() (used by Timer).  Both advance together and never   *)
(* go backwards; two successive reads may return the same value.           *)
(* Python's None is the empty sequence <<>>, a present value x is <<x>>.   *)
(***************************************************************************)
EXTENDS Integers, Sequences, FiniteSets, TLC

\* ------------------------------------------------------------------ bounds
MaxClock == 8
MaxPeriod == 3
MaxCalls == 3
MaxPerf == 4
MaxSpans == 4
MaxWarmup == 2
MaxInterval == 1
MaxMgrClock == 2
MaxStops == 1
MaxScopeClock == 3
MaxScopes == 3
MaxAccess == 3

WallEpoch == 1

None == <<>>
Some(x) == <<x>>
Val(o) == o[1]

Funcs == {"f", "g"}
ArgVals == {0}

VARIABLES
    wall,       \* time.time()
    perf,       \* time.perf_counter()
    out,        \* the lines printed to standard output
    thr,        \* a Throttle object: throttle_period, time_of_last_call
    wrappers,   \* functions for which Throttle.__call__ has produced a wrapper
    calls,      \* history of the calls made on thr
    refLast,    \* last-fire time had every call been a direct rate_limit call
    timer,      \* a standalone Timer object
    spans,      \* history: elapsed time of every completed span of timer
    okOps,      \* history: the successful start / stop operations on timer
    resets,     \* history: how often stop() zeroed the counters of timer
    warmup0,    \* history: the warmup count timer was created with
    tmLast,     \* the last operation on timer and the error it raised
    mgr,        \* a TimerManager object
    completed,  \* history: per name, the stop() calls of its timer that returned
    mgLast,     \* the last operation on mgr and the error it raised
    scopes,     \* history: the with-blocks of mgr entered and not yet left
    closed,     \* history: per name, the with statement of that name left last
    gtm,        \* the module variable _global_timer_manager: None or an object
    gheap,      \* the TimerManager objects get_global_timer_manager has built
    gtimers,    \* the GlobalTimer objects built
    glLog       \* history: the calls of get_global_timer_manager

thVars == <<thr, wrappers, calls, refLast>>
tmVars == <<timer, spans, okOps, resets, warmup0, tmLast>>
mgVars == <<mgr, completed, mgLast, scopes, closed>>
glVars == <<gtm, gheap, gtimers, glLog>>
vars == <<wall, perf, out, thVars, tmVars, mgVars, glVars>>

\* ---------------------------------------------------------------- Throttle

\* Variant: the last-fire time starts at the clock reading, not at 0.
ThrottleInit_now(throttle_period) ==
    [throttle_period |-> throttle_period, time_of_last_call |-> wall]

\* Throttle.__init__
ThrottleInit(throttle_period) ==
    [throttle_period |-> throttle_period, time_of_last_call |-> 0]

\* Variant: fires at now - last >= period.
rate_limit_ge(self, now, func, args) ==
    LET time_since_last_call == now - self.time_of_last_call IN
    IF time_since_last_call >= self.throttle_period
    THEN [self |-> [self EXCEPT !.time_of_last_call = now],
          invoked |-> Some([func |-> func, args |-> args])]
    ELSE [self |-> self, invoked |-> None]

\* Variant: a firing does not record its time.
rate_limit_no_update(self, now, func, args) ==
    LET time_since_last_call == now - self.time_of_last_call IN
    IF time_since_last_call > self.throttle_period
    THEN [self |-> self,
          invoked |-> Some([func |-> func, args |-> args])]
    ELSE [self |-> self, invoked |-> None]

\* Variant: a suppressed call records its time too.
rate_limit_update_always(self, now, func, args) ==
    LET time_since_last_call == now - self.time_of_last_call IN
    IF time_since_last_call > self.throttle_period
    THEN [self |-> [self EXCEPT !.time_of_last_call = now],
          invoked |-> Some([func |-> func, args |-> args])]
    ELSE [self |-> [self EXCEPT !.time_of_last_call = now], invoked |-> None]

\* Variant: fires while less than the period has passed, not once more has.
rate_limit_lt(self, now, func, args) ==
    LET time_since_last_call == now - self.time_of_last_call IN
    IF time_since_last_call < self.throttle_period
    THEN [self |-> [self EXCEPT !.time_of_last_call = now],
          invoked |-> Some([func |-> func, args |-> args])]
    ELSE [self |-> self, invoked |-> None]

\* Throttle.rate_limit: the throttle after the call, and the invocation of
\* func it made (None when the call was suppressed).
rate_limit(self, now, func, args) ==
    LET time_since_last_call == now - self.time_of_last_call IN
    IF time_since_last_call > self.throttle_period
    THEN [self |-> [self EXCEPT !.time_of_last_call = now],
          invoked |-> Some([func |-> func, args |-> args])]
    ELSE [self |-> self, invoked |-> None]

\* Variant: the wrapper throttles with a last-fire time of its own.
wrapper_own_state(self, now, func, args) ==
    LET r == rate_limit(ThrottleInit(self.throttle_period), now, func, args) IN
    [self |-> self, invoked |-> r.invoked]

\* The closure Throttle.__call__(func) returns: wrapper(*args, **kwargs).
wrapper(self, now, func, args) ==
    rate_limit(self, now, func, args)

\* One entry of the call history.
CallEntry(via, func, args, now, before, r, ref) ==
    [via |-> via, func |-> func, args |-> args, t |-> now,
     before |-> before.time_of_last_call,
     after |-> r.self.time_of_last_call,
     invoked |-> r.invoked,
     refInvoked |-> ref.invoked]

RefThrottle == [thr EXCEPT !.time_of_last_call = refLast]

\* A direct call thr.rate_limit(func, args).
ThRateLimit(func, args) ==
    /\ Len(calls) < MaxCalls
    /\ LET r == rate_limit(thr, wall, func, args)
           ref == rate_limit(RefThrottle, wall, func, args) IN
       /\ thr' = r.self
       /\ refLast' = ref.self.time_of_last_call
       /\ calls' = Append(calls, CallEntry("direct", func, args, wall, thr, r, ref))
    /\ UNCHANGED <<wall, perf, out, wrappers, tmVars, mgVars, glVars>>

\* thr(func): Throttle.__call__ builds a wrapper and changes nothing else.
ThDecorate(func) ==
    /\ func \notin wrappers
    /\ wrappers' = wrappers \cup {func}
    /\ UNCHANGED <<wall, perf, out, thr, calls, refLast, tmVars, mgVars, glVars>>

\* A call of the wrapper built for func.
ThWrapperCall(func, args) ==
    /\ func \in wrappers
    /\ Len(calls) < MaxCalls
    /\ LET r == wrapper(thr, wall, func, args)
           ref == rate_limit(RefThrottle, wall, func, args) IN
       /\ thr' = r.self
       /\ refLast' = ref.self.time_of_last_call
       /\ calls' = Append(calls, CallEntry("wrapped", func, args, wall, thr, r, ref))
    /\ UNCHANGED <<wall, perf, out, wrappers, tmVars, mgVars, glVars>>

\* Time passes.
ThTick ==
    /\ wall < MaxClock
    /\ wall' = wall + 1
    /\ perf' = perf + 1
    /\ UNCHANGED <<out, thVars, tmVars, mgVars, glVars>>

\* A throttle called for ever.  Of the call history only the last call is
\* kept, with a bit that tells one call from the next.
LiveEntry(via, func, args, r) ==
    [via |-> via, func |-> func, args |-> args, invoked |-> r.invoked,
     seq |-> IF calls = <<>> THEN 0 ELSE 1 - calls[1].seq]

\* thr.rate_limit(func, args), any number of times.
LiveRateLimit(func, args) ==
    /\ LET r == rate_limit(thr, wall, func, args) IN
       /\ thr' = r.self
       /\ calls' = <<LiveEntry("direct", func, args, r)>>
    /\ UNCHANGED <<wall, perf, out, wrappers, refLast, tmVars, mgVars, glVars>>

\* A call of the wrapper built for func, any number of times.
LiveWrapperCall(func, args) ==
    /\ func \in wrappers
    /\ LET r == wrapper(thr, wall, func, args) IN
       /\ thr' = r.self
       /\ calls' = <<LiveEntry("wrapped", func, args, r)>>
    /\ UNCHANGED <<wall, perf, out, wrappers, refLast, tmVars, mgVars, glVars>>

\* Time passes without end.  rate_limit reads the clock only to compare
\* now - time_of_last_call with the period, so once the reading has reached
\* MaxClock the origin of the clock is moved by one tick instead: the reading
\* stays and the last-fire time goes down by one.  A difference of more than
\* period + 1 is kept at period + 1, which no comparison with the period
\* tells from a larger one.
LiveTick ==
    /\ IF wall < MaxClock
       THEN /\ wall' = wall + 1
            /\ thr' = thr
       ELSE /\ wall' = wall
            /\ thr' = IF wall - thr.time_of_last_call <= thr.throttle_period
                      THEN [thr EXCEPT !.time_of_last_call = @ - 1]
                      ELSE [thr EXCEPT !.time_of_last_call =
                                           wall - (thr.throttle_period + 1)]
    /\ UNCHANGED <<perf, out, wrappers, calls, refLast, tmVars, mgVars, glVars>>

\* ------------------------------------------------------------------- Timer

DefaultWarmup == 100
DefaultPrintInterval == 1

\* The exceptions the code raises.
ErrRunning == [cls |-> "TimerError", msg |-> "Timer is running. Use .stop() to stop it"]
ErrNotRunning == [cls |-> "TimerError", msg |-> "Timer is not running. Use .start() to start it"]
ErrZeroDivision == [cls |-> "ZeroDivisionError", msg |-> "division by zero"]
ErrValue == [cls |-> "ValueError", msg |-> "math domain error"]

\* Timer.__init__ (_stop_time, which the code writes and never reads, is left out)
Timer_init(msg, print_interval, unit, scale, warmup) ==
    [msg |-> msg,
     start_time |-> None,
     elapsed_time |-> None,
     unit |-> unit,
     scale |-> scale,
     print_interval |-> print_interval,
     warmup |-> warmup,
     total_elapsed_time |-> 0,
     sum_elapsed_time_squared |-> 0,
     n_samples |-> 0,
     throttle |-> ThrottleInit(print_interval)]

\* Timer.num_calls
num_calls(self) == self.n_samples

\* Timer.total_run_time
total_run_time(self) == self.elapsed_time

\* Timer.mean_elapsed_time: the error raised, or the quotient as a fraction.
mean_elapsed_time(self) ==
    IF self.n_samples = 0
    THEN [err |-> Some(ErrZeroDivision), value |-> None]
    ELSE [err |-> None,
          value |-> Some([num |-> self.total_elapsed_time, den |-> self.n_samples])]

\* Timer.std_elapsed_time: the error raised, or the number whose square root
\* is returned, sum_sq / n - mean ** 2, as a fraction.  The left quotient is
\* evaluated first, so n = 0 raises before the mean is read; math.sqrt
\* rejects a negative number.
std_elapsed_time(self) ==
    IF self.n_samples = 0
    THEN [err |-> Some(ErrZeroDivision), value |-> None]
    ELSE LET m == Val(mean_elapsed_time(self).value)
             num == self.sum_elapsed_time_squared * m.den * m.den
                       - self.n_samples * m.num * m.num
             den == self.n_samples * m.den * m.den IN
         IF num < 0
         THEN [err |-> Some(ErrValue), value |-> None]
         ELSE [err |-> None, value |-> Some([sqrt_of_num |-> num, sqrt_of_den |-> den])]

\* Variant: start() forgets the span measured before.
Timer_start_clears(self, now) ==
    IF self.start_time # None
    THEN [err |-> Some(ErrRunning), self |-> self]
    ELSE [err |-> None, self |-> [self EXCEPT !.start_time = Some(now),
                                               !.elapsed_time = None]]

\* Variant: start() on a running timer restarts it silently.
Timer_start_restart(self, now) ==
    [err |-> None, self |-> [self EXCEPT !.start_time = Some(now)]]

\* Timer.start: the error raised (None when it returns) and the timer after it.
Timer_start(self, now) ==
    IF self.start_time # None
    THEN [err |-> Some(ErrRunning), self |-> self]
    ELSE [err |-> None, self |-> [self EXCEPT !.start_time = Some(now)]]

\* Variant: the warmup count is kept, so the counters are zeroed again every
\* time the sample count comes back to it.
Timer_record_periodic(self) ==
    LET e == Val(self.elapsed_time)
        r == IF self.n_samples = self.warmup
             THEN [self EXCEPT !.n_samples = 0,
                               !.total_elapsed_time = 0,
                               !.sum_elapsed_time_squared = 0]
             ELSE self IN
    [r EXCEPT !.n_samples = @ + 1,
              !.total_elapsed_time = @ + e,
              !.sum_elapsed_time_squared = @ + e * e]

\* Variant: the sample is recorded first and the counters are zeroed after it.
Timer_record_reset_after(self) ==
    LET e == Val(self.elapsed_time)
        r == [self EXCEPT !.n_samples = @ + 1,
                          !.total_elapsed_time = @ + e,
                          !.sum_elapsed_time_squared = @ + e * e] IN
    IF r.n_samples = r.warmup
    THEN [r EXCEPT !.n_samples = 0,
                   !.warmup = 0,
                   !.total_elapsed_time = 0,
                   !.sum_elapsed_time_squared = 0]
    ELSE r

\* The statistics part of Timer.stop, on a timer whose elapsed time has just
\* been set: the one-time warmup reset, then the sample is recorded.
Timer_record(self) ==
    LET e == Val(self.elapsed_time)
        r == IF self.n_samples = self.warmup
             THEN [self EXCEPT !.n_samples = 0,
                               !.warmup = 0,
                               !.total_elapsed_time = 0,
                               !.sum_elapsed_time_squared = 0]
             ELSE self IN
    [r EXCEPT !.n_samples = @ + 1,
              !.total_elapsed_time = @ + e,
              !.sum_elapsed_time_squared = @ + e * e]

\* Timer.stop
Timer_stop(self, now) ==
    IF self.start_time = None
    THEN [err |-> Some(ErrNotRunning), self |-> self]
    ELSE [err |-> None,
          self |-> Timer_record([self EXCEPT
                      !.elapsed_time = Some(now - Val(self.start_time)),
                      !.start_time = None])]

\* Timer.prints: the summary line, or the error raised while formatting it
\* (the Fps term divides by the sum of the elapsed times).
Timer_prints(self) ==
    IF self.n_samples > 1 /\ self.total_elapsed_time = 0
    THEN [err |-> Some(ErrZeroDivision), line |-> None]
    ELSE [err |-> None,
          line |-> Some([label |-> self.msg, stats |-> self.n_samples > 1])]

\* Timer.print: the lines written to standard output, and the error raised.
Timer_print(self, indent) ==
    LET p == Timer_prints(self) IN
    IF p.err # None
    THEN [err |-> p.err, lines |-> <<>>]
    ELSE [err |-> None, lines |-> <<[indent |-> indent, text |-> Val(p.line)]>>]

\* Timer.__enter__
Timer_enter(self, now) == Timer_start(self, now)

\* Timer.__exit__: stop, then the timer's own throttle decides on printing.
Timer_exit(self, now, wallNow) ==
    LET s == Timer_stop(self, now) IN
    IF s.err # None THEN [err |-> s.err, self |-> s.self, lines |-> <<>>]
    ELSE IF s.self.msg = None THEN [err |-> None, self |-> s.self, lines |-> <<>>]
    ELSE LET r == rate_limit(s.self.throttle, wallNow, "print", <<>>)
             t == [s.self EXCEPT !.throttle = r.self] IN
         IF r.invoked = None THEN [err |-> None, self |-> t, lines |-> <<>>]
         ELSE LET p == Timer_print(t, 0) IN
              [err |-> p.err, self |-> t, lines |-> p.lines]

\* The history variables of the standalone timer after operation `op`, whose
\* start or stop (`kind`) raised `stepErr` and which itself raised `err`.
TmHistory(op, kind, before, after, stepErr, err) ==
    /\ tmLast' = [op |-> op, err |-> err, seq |-> 1 - tmLast.seq]
    /\ okOps' = IF stepErr = None THEN Append(okOps, kind) ELSE okOps
    /\ spans' = IF kind = "stop" /\ stepErr = None
                THEN Append(spans, IF after.elapsed_time = None THEN -1
                                   ELSE Val(after.elapsed_time))
                ELSE spans
    /\ resets' = IF kind = "stop" /\ stepErr = None
                    /\ after.n_samples # before.n_samples + 1
                 THEN resets + 1 ELSE resets
    /\ UNCHANGED warmup0

TmStart ==
    /\ timer.start_time # None \/ Len(spans) < MaxSpans
    /\ LET r == Timer_start(timer, perf) IN
       /\ timer' = r.self
       /\ TmHistory("start", "start", timer, r.self, r.err, r.err)
    /\ UNCHANGED <<wall, perf, out, thVars, mgVars, glVars>>

TmStop ==
    /\ LET r == Timer_stop(timer, perf) IN
       /\ timer' = r.self
       /\ TmHistory("stop", "stop", timer, r.self, r.err, r.err)
    /\ UNCHANGED <<wall, perf, out, thVars, mgVars, glVars>>

\* with timer: ... entered
TmEnter ==
    /\ timer.start_time # None \/ Len(spans) < MaxSpans
    /\ LET r == Timer_enter(timer, perf) IN
       /\ timer' = r.self
       /\ TmHistory("enter", "start", timer, r.self, r.err, r.err)
    /\ UNCHANGED <<wall, perf, out, thVars, mgVars, glVars>>

\* with timer: ... left
TmExit ==
    /\ LET r == Timer_exit(timer, perf, wall) IN
       /\ timer' = r.self
       /\ out' = out \o r.lines
       /\ TmHistory("exit", "stop", timer, r.self, Timer_stop(timer, perf).err, r.err)
    /\ UNCHANGED <<wall, perf, thVars, mgVars, glVars>>

TmTick ==
    /\ perf < MaxPerf
    /\ wall' = wall + 1
    /\ perf' = perf + 1
    /\ UNCHANGED <<out, thVars, tmVars, mgVars, glVars>>

\* ------------------------------------------------------------ TimerManager

Names == {"a", "b"}
ScopeNames == Names \cup {"c"}

ErrNotFound(name) == [cls |-> "TimerError", msg |-> "Timer not found.", name |-> name]
ErrNoActive == [cls |-> "TimerError",
                msg |-> "No active timer. Please use with timer(''name') for this context manager."]
ErrIndex == [cls |-> "IndexError", msg |-> "pop from empty list"]

\* TimerManager.__init__
TimerManager_init(throttle, unit, scale) ==
    [timers |-> <<>>,
     throttles |-> <<>>,
     interval |-> throttle,
     active_timer_name |-> None,
     unit |-> unit,
     scale |-> scale,
     call_stack |-> <<>>]

Has(self, name) == name \in DOMAIN self.timers

OrDefault(given, default) == IF given = None THEN default ELSE Val(given)

\* Variant: the manager-level throttle takes the per-call interval as well.
create_timer_override_throttle(self, name, throttle, unit, scale) ==
    IF Has(self, name) THEN self
    ELSE [self EXCEPT
            !.timers = @ @@ (name :> Timer_init(Some(name),
                                                OrDefault(throttle, self.interval),
                                                OrDefault(unit, self.unit),
                                                OrDefault(scale, self.scale),
                                                DefaultWarmup)),
            !.throttles = @ @@ (name :> ThrottleInit(OrDefault(throttle, self.interval)))]

\* TimerManager._create_timer
create_timer(self, name, throttle, unit, scale) ==
    IF Has(self, name) THEN self
    ELSE [self EXCEPT
            !.timers = @ @@ (name :> Timer_init(Some(name),
                                                OrDefault(throttle, self.interval),
                                                OrDefault(unit, self.unit),
                                                OrDefault(scale, self.scale),
                                                DefaultWarmup)),
            !.throttles = @ @@ (name :> ThrottleInit(self.interval))]

\* TimerManager.start
TimerManager_start(self, name, now) ==
    LET m == IF Has(self, name) THEN self
             ELSE create_timer(self, name, None, None, None)
        r == Timer_start(m.timers[name], now) IN
    [err |-> r.err, self |-> [m EXCEPT !.timers[name] = r.self]]

\* Variant: the manager-level throttle is consulted before the timer is stopped.
TimerManager_stop_print_first(self, name, indent, now, wallNow) ==
    IF ~Has(self, name)
    THEN [err |-> Some(ErrNotFound(name)), self |-> self, lines |-> <<>>]
    ELSE LET r == rate_limit(self.throttles[name], wallNow, "print", <<indent>>)
             m == [self EXCEPT !.throttles[name] = r.self]
             s == Timer_stop(m.timers[name], now) IN
         IF s.err # None
         THEN [err |-> s.err, self |-> m, lines |-> <<>>]
         ELSE LET t == [m EXCEPT !.timers[name] = s.self] IN
              IF r.invoked = None
              THEN [err |-> None, self |-> t, lines |-> <<>>]
              ELSE LET p == Timer_print(t.timers[name], indent) IN
                   [err |-> p.err, self |-> t, lines |-> p.lines]

\* TimerManager.stop: stop the timer, then let the manager's throttle of that
\* name decide whether its summary is printed.
TimerManager_stop(self, name, indent, now, wallNow) ==
    IF ~Has(self, name)
    THEN [err |-> Some(ErrNotFound(name)), self |-> self, lines |-> <<>>]
    ELSE LET s == Timer_stop(self.timers[name], now) IN
         IF s.err # None
         THEN [err |-> s.err, self |-> self, lines |-> <<>>]
         ELSE LET m == [self EXCEPT !.timers[name] = s.self]
                  r == rate_limit(m.throttles[name], wallNow, "print", <<indent>>)
                  t == [m EXCEPT !.throttles[name] = r.self] IN
              IF r.invoked = None
              THEN [err |-> None, self |-> t, lines |-> <<>>]
              ELSE LET p == Timer_print(t.timers[name], Val(r.invoked).args[1]) IN
                   [err |-> p.err, self |-> t, lines |-> p.lines]

\* TimerManager.__call__
TimerManager_call(self, name, throttle, unit, scale) ==
    LET m == IF Has(self, name) THEN self
             ELSE create_timer(self, name, throttle, unit, scale) IN
    [m EXCEPT !.active_timer_name = Some(name)]

\* Variant: entering a nested block pauses the timer of the enclosing block.
TimerManager_enter_pause_outer(self, now) ==
    IF self.active_timer_name = None
    THEN [err |-> Some(ErrNoActive), self |-> self]
    ELSE LET n == Val(self.active_timer_name)
             d == Len(self.call_stack)
             m == IF d > 0 /\ self.call_stack[d] # n
                  THEN [self EXCEPT !.timers[self.call_stack[d]] =
                                        Timer_stop(@, now).self]
                  ELSE self
             s == TimerManager_start(m, n, now) IN
         IF s.err # None
         THEN [err |-> s.err, self |-> s.self]
         ELSE [err |-> None,
               self |-> [s.self EXCEPT !.call_stack = Append(@, n)]]

\* Variant: the name is pushed on the call stack before the timer is started.
TimerManager_enter_push_first(self, now) ==
    IF self.active_timer_name = None
    THEN [err |-> Some(ErrNoActive), self |-> self]
    ELSE LET n == Val(self.active_timer_name)
             m == [self EXCEPT !.call_stack = Append(@, n)]
             s == TimerManager_start(m, n, now) IN
         [err |-> s.err, self |-> s.self]

\* TimerManager.__enter__
TimerManager_enter(self, now) ==
    IF self.active_timer_name = None
    THEN [err |-> Some(ErrNoActive), self |-> self]
    ELSE LET s == TimerManager_start(self, Val(self.active_timer_name), now) IN
         IF s.err # None
         THEN [err |-> s.err, self |-> s.self]
         ELSE [err |-> None,
               self |-> [s.self EXCEPT
                           !.call_stack = Append(@, self.active_timer_name[1])]]

\* Variant: the pending active name is restored even when stop() raises.
TimerManager_exit_finally(self, now, wallNow) ==
    IF self.call_stack = <<>>
    THEN [err |-> Some(ErrIndex), self |-> self, lines |-> <<>>]
    ELSE LET timer_name == self.call_stack[Len(self.call_stack)]
             m == [self EXCEPT !.call_stack = SubSeq(@, 1, Len(@) - 1)]
             s == TimerManager_stop(m, timer_name, Len(m.call_stack), now, wallNow) IN
         [err |-> s.err,
          lines |-> s.lines,
          self |-> [s.self EXCEPT !.active_timer_name =
                       IF Len(s.self.call_stack) > 0
                       THEN Some(s.self.call_stack[Len(s.self.call_stack)])
                       ELSE None]]

\* Variant: the oldest name of the call stack is taken, not the newest.
TimerManager_exit_fifo(self, now, wallNow) ==
    IF self.call_stack = <<>>
    THEN [err |-> Some(ErrIndex), self |-> self, lines |-> <<>>]
    ELSE LET timer_name == self.call_stack[1]
             m == [self EXCEPT !.call_stack = SubSeq(@, 2, Len(@))]
             s == TimerManager_stop(m, timer_name, Len(m.call_stack), now, wallNow) IN
         IF s.err # None
         THEN [err |-> s.err, self |-> s.self, lines |-> s.lines]
         ELSE [err |-> None,
               lines |-> s.lines,
               self |-> [s.self EXCEPT !.active_timer_name =
                            IF Len(s.self.call_stack) > 0
                            THEN Some(s.self.call_stack[Len(s.self.call_stack)])
                            ELSE None]]

\* TimerManager.__exit__
TimerManager_exit(self, now, wallNow) ==
    IF self.call_stack = <<>>
    THEN [err |-> Some(ErrIndex), self |-> self, lines |-> <<>>]
    ELSE LET timer_name == self.call_stack[Len(self.call_stack)]
             m == [self EXCEPT !.call_stack = SubSeq(@, 1, Len(@) - 1)]
             s == TimerManager_stop(m, timer_name, Len(m.call_stack), now, wallNow) IN
         IF s.err # None
         THEN [err |-> s.err, self |-> s.self, lines |-> s.lines]
         ELSE [err |-> None,
               lines |-> s.lines,
               self |-> [s.self EXCEPT !.active_timer_name =
                            IF Len(s.self.call_stack) > 0
                            THEN Some(s.self.call_stack[Len(s.self.call_stack)])
                            ELSE None]]

\* Whether the timer of `name` was stopped between manager states m and n.
StoppedIn(m, n, name) ==
    /\ Has(m, name)
    /\ m.timers[name].start_time # None
    /\ n.timers[name].start_time = None

Max(S) == CHOOSE x \in S : \A y \in S : y <= x

\* A number no with-block recorded in the history carries yet.
NextScopeId ==
    1 + Max({0} \cup {scopes[i].id : i \in 1..Len(scopes)}
                \cup {Val(closed[n]).id : n \in {k \in ScopeNames : closed[k] # None}})

\* The history variables of the manager after an operation.  A with-block is
\* open from the moment __enter__ returns until __exit__ is called.
MgHistory(op, name, indent, before, after, err) ==
    /\ mgLast' = [op |-> op, name |-> name, indent |-> indent, err |-> err]
    /\ completed' = [n \in ScopeNames |->
                       IF StoppedIn(before, after, n)
                       THEN completed[n] + 1 ELSE completed[n]]
    /\ scopes' = IF op = "enter" /\ err = None
                 THEN Append(scopes, [name |-> Val(before.active_timer_name),
                                      id |-> NextScopeId,
                                      entered |-> perf])
                 ELSE IF op = "exit" /\ scopes # <<>>
                 THEN SubSeq(scopes, 1, Len(scopes) - 1)
                 ELSE scopes

TotalCompleted == completed["a"] + completed["b"] + completed["c"]

\* Whether starting the timer of `name` keeps the model within `cap` spans.
MayStart(name, cap) ==
    \/ Has(mgr, name) /\ mgr.timers[name].start_time # None
    \/ TotalCompleted < cap

\* manager.start(name)
MgStart(name, cap) ==
    /\ MayStart(name, cap)
    /\ LET r == TimerManager_start(mgr, name, perf) IN
       /\ mgr' = r.self
       /\ MgHistory("start", None, None, mgr, r.self, r.err)
    /\ UNCHANGED <<wall, perf, out, closed, thVars, tmVars, glVars>>

\* manager.stop(name, indent)
MgStop(name, indent) ==
    /\ LET r == TimerManager_stop(mgr, name, indent, perf, wall) IN
       /\ mgr' = r.self
       /\ out' = out \o r.lines
       /\ MgHistory("stop", Some(name), Some(indent), mgr, r.self, r.err)
    /\ UNCHANGED <<wall, perf, closed, thVars, tmVars, glVars>>

\* manager(name, throttle, unit, scale)
MgCall(name, ov) ==
    /\ LET m == TimerManager_call(mgr, name, ov.throttle, ov.unit, ov.scale) IN
       /\ mgr' = m
       /\ MgHistory("call", None, None, mgr, m, None)
    /\ UNCHANGED <<wall, perf, out, closed, thVars, tmVars, glVars>>

\* manager.__enter__()
MgEnter(cap) ==
    /\ mgr.active_timer_name # None => MayStart(Val(mgr.active_timer_name), cap)
    /\ LET r == TimerManager_enter(mgr, perf) IN
       /\ mgr' = r.self
       /\ MgHistory("enter", None, None, mgr, r.self, r.err)
    /\ UNCHANGED <<wall, perf, out, closed, thVars, tmVars, glVars>>

\* manager.__exit__()
MgExit ==
    /\ LET r == TimerManager_exit(mgr, perf, wall) IN
       /\ mgr' = r.self
       /\ out' = out \o r.lines
       /\ MgHistory("exit", None, None, mgr, r.self, r.err)
    /\ UNCHANGED <<wall, perf, closed, thVars, tmVars, glVars>>

MgTick ==
    /\ perf < MaxMgrClock
    /\ wall' = wall + 1
    /\ perf' = perf + 1
    /\ UNCHANGED <<out, thVars, tmVars, mgVars, glVars>>

\* The statement `with manager(name):` is entered: manager(name) is called
\* and __enter__ is called on what it returns; the block is entered when
\* __enter__ returns.
WithEnter(name, cap) ==
    /\ TotalCompleted + Len(scopes) < cap
    /\ LET m == TimerManager_call(mgr, name, None, None, None)
           r == TimerManager_enter(m, perf) IN
       /\ mgr' = r.self
       /\ MgHistory("enter", None, None, m, r.self, r.err)
    /\ UNCHANGED <<wall, perf, out, closed, thVars, tmVars, glVars>>

\* The innermost open with statement is left: __exit__ is called.
WithExit ==
    /\ scopes # <<>>
    /\ LET r == TimerManager_exit(mgr, perf, wall)
           d == Len(scopes) IN
       /\ mgr' = r.self
       /\ out' = out \o r.lines
       /\ MgHistory("exit", None, None, mgr, r.self, r.err)
       /\ closed' = [closed EXCEPT ![scopes[d].name] =
                        Some([id |-> scopes[d].id,
                              entered |-> scopes[d].entered,
                              left |-> perf,
                              parent |-> IF d > 1 THEN Some(scopes[d - 1].id)
                                         ELSE None])]
    /\ UNCHANGED <<wall, perf, thVars, tmVars, glVars>>

WithTick ==
    /\ perf < MaxScopeClock
    /\ wall' = wall + 1
    /\ perf' = perf + 1
    /\ UNCHANGED <<out, thVars, tmVars, mgVars, glVars>>

\* ------------------------------------------------------ the global manager

\* Variant: the accessor builds a new manager on every call.
get_global_timer_manager_fresh(g, heap, newId, throttle, unit, scale) ==
    [global |-> Some(newId),
     heap |-> heap @@ (newId :> TimerManager_init(throttle, unit, scale)),
     ret |-> newId]

\* get_global_timer_manager: the module variable and the objects after the
\* call, and the object returned.  newId is the identity a manager built by
\* this call gets.
get_global_timer_manager(g, heap, newId, throttle, unit, scale) ==
    IF g = None
    THEN [global |-> Some(newId),
          heap |-> heap @@ (newId :> TimerManager_init(throttle, unit, scale)),
          ret |-> newId]
    ELSE [global |-> g, heap |-> heap, ret |-> Val(g)]

\* GlobalTimer.__init__
GlobalTimer_init(g, heap, newId, name, throttle, unit, scale) ==
    LET r == get_global_timer_manager(g, heap, newId, throttle, unit, scale)
        m == TimerManager_call(r.heap[r.ret], name, None, None, None) IN
    [global |-> r.global,
     heap |-> [r.heap EXCEPT ![r.ret] = m],
     ret |-> r.ret,
     self |-> [manager |-> r.ret, name |-> name]]

\* The configuration of a manager.
Config(m) == [throttle |-> m.interval, unit |-> m.unit, scale |-> m.scale]

\* The arguments a caller passes: the defaults of the accessor and others.
DefaultGlobalArgs == [throttle |-> DefaultPrintInterval, unit |-> "ms", scale |-> 1000]
GlobalArgs == {DefaultGlobalArgs, [throttle |-> 0, unit |-> "s", scale |-> 1]}

GlLogged(via, args, r) ==
    glLog' = Append(glLog, [via |-> via, args |-> args, ret |-> r.ret,
                            config |-> Config(r.heap[r.ret])])

\* get_global_timer_manager(throttle, unit, scale)
GlGet(args) ==
    /\ Len(glLog) < MaxAccess
    /\ LET r == get_global_timer_manager(gtm, gheap, Len(glLog) + 1,
                                         args.throttle, args.unit, args.scale) IN
       /\ gtm' = r.global
       /\ gheap' = r.heap
       /\ GlLogged("get", args, r)
    /\ UNCHANGED <<wall, perf, out, gtimers, thVars, tmVars, mgVars>>

\* GlobalTimer(name, throttle, unit, scale)
GlTimer(name, args) ==
    /\ Len(glLog) < MaxAccess
    /\ LET r == GlobalTimer_init(gtm, gheap, Len(glLog) + 1, name,
                                 args.throttle, args.unit, args.scale) IN
       /\ gtm' = r.global
       /\ gheap' = r.heap
       /\ gtimers' = gtimers \cup {r.self}
       /\ GlLogged("GlobalTimer", args, r)
    /\ UNCHANGED <<wall, perf, out, thVars, tmVars, mgVars>>

\* GlobalTimer.start
GlStart(gt) ==
    /\ gheap[gt.manager].timers[gt.name].n_samples < MaxStops
    /\ LET r == TimerManager_start(gheap[gt.manager], gt.name, perf) IN
       gheap' = [gheap EXCEPT ![gt.manager] = r.self]
    /\ UNCHANGED <<wall, perf, out, gtm, gtimers, glLog, thVars, tmVars, mgVars>>

\* GlobalTimer.stop
GlStop(gt) ==
    /\ LET r == TimerManager_stop(gheap[gt.manager], gt.name, 0, perf, wall) IN
       /\ gheap' = [gheap EXCEPT ![gt.manager] = r.self]
       /\ out' = out \o r.lines
    /\ UNCHANGED <<wall, perf, gtm, gtimers, glLog, thVars, tmVars, mgVars>>

Intervals == {0, 1}
Indents == {1}
NoOverride == [throttle |-> None, unit |-> None, scale |-> None]
Overrides == {NoOverride, [throttle |-> Some(0), unit |-> Some("ms"), scale |-> Some(1000)]}

\* ---------------------------------------------------------- specifications

Labels == {None, Some("t")}

IdleThrottle ==
    /\ thr = ThrottleInit(0)
    /\ wrappers = {}
    /\ calls = <<>>
    /\ refLast = 0

IdleTimer ==
    /\ timer = Timer_init(None, DefaultPrintInterval, "s", 1, DefaultWarmup)
    /\ warmup0 = DefaultWarmup
    /\ spans = <<>>
    /\ okOps = <<>>
    /\ resets = 0
    /\ tmLast = [op |-> "init", err |-> None, seq |-> 0]

IdleGlobal ==
    /\ gtm = None
    /\ gheap = <<>>
    /\ gtimers = {}
    /\ glLog = <<>>

IdleManager ==
    /\ mgr = TimerManager_init(DefaultPrintInterval, "s", 1)
    /\ completed = [n \in ScopeNames |-> 0]
    /\ mgLast = [op |-> "init", name |-> None, indent |-> None, err |-> None]
    /\ scopes = <<>>
    /\ closed = [n \in ScopeNames |-> None]

InitThrottle ==
    /\ wall = WallEpoch
    /\ perf = 0
    /\ out = <<>>
    /\ \E p \in 0..MaxPeriod : thr = ThrottleInit(p)
    /\ wrappers = {}
    /\ calls = <<>>
    /\ refLast = 0
    /\ IdleTimer
    /\ IdleManager
    /\ IdleGlobal

NextThrottle ==
    \/ \E f \in Funcs, a \in ArgVals : ThRateLimit(f, a)
    \/ \E f \in Funcs : ThDecorate(f)
    \/ \E f \in Funcs, a \in ArgVals : ThWrapperCall(f, a)
    \/ ThTick

SpecThrottle == InitThrottle /\ [][NextThrottle]_vars

\* A throttle in a program that runs for ever: the clock keeps advancing and
\* the throttle keeps being called.
LiveCall == \E f \in Funcs, a \in ArgVals : LiveRateLimit(f, a) \/ LiveWrapperCall(f, a)

NextThrottleLive ==
    \/ LiveCall
    \/ \E f \in Funcs : ThDecorate(f)
    \/ LiveTick

SpecThrottleLive ==
    InitThrottle /\ [][NextThrottleLive]_vars /\ WF_vars(LiveTick) /\ WF_vars(LiveCall)

InitTimer ==
    /\ wall = WallEpoch
    /\ perf = 0
    /\ out = <<>>
    /\ IdleThrottle
    /\ \E msg \in Labels, i \in 0..MaxInterval, w \in 0..MaxWarmup :
          /\ timer = Timer_init(msg, i, "s", 1, w)
          /\ warmup0 = w
    /\ spans = <<>>
    /\ okOps = <<>>
    /\ resets = 0
    /\ tmLast = [op |-> "init", err |-> None, seq |-> 0]
    /\ IdleManager
    /\ IdleGlobal

NextTimer ==
    \/ TmStart
    \/ TmStop
    \/ TmEnter
    \/ TmExit
    \/ TmTick

SpecTimer == InitTimer /\ [][NextTimer]_vars

Init ==
    /\ wall = WallEpoch
    /\ perf = 0
    /\ out = <<>>
    /\ IdleThrottle
    /\ IdleTimer
    /\ IdleGlobal
    /\ \E i \in Intervals : mgr = TimerManager_init(i, "s", 1)
    /\ completed = [n \in ScopeNames |-> 0]
    /\ mgLast = [op |-> "init", name |-> None, indent |-> None, err |-> None]
    /\ scopes = <<>>
    /\ closed = [n \in ScopeNames |-> None]

Next ==
    \/ \E n \in Names : MgStart(n, MaxStops)
    \/ \E n \in Names, i \in Indents : MgStop(n, i)
    \/ \E n \in Names : MgCall(n, NoOverride)
    \/ MgEnter(MaxStops)
    \/ MgExit
    \/ MgTick

Spec == Init /\ [][Next]_vars

\* One name timed over and over through the manager's scopes, beyond the
\* warmup count of the timers the manager creates.
LoopCap == DefaultWarmup + 2

NextLoop ==
    \/ \E ov \in Overrides : MgCall("a", ov)
    \/ MgEnter(LoopCap)
    \/ MgExit
    \/ MgTick

SpecLoop == Init /\ [][NextLoop]_vars

\* A process before its first access to the global manager.
InitGlobal ==
    /\ wall = WallEpoch
    /\ perf = 0
    /\ out = <<>>
    /\ IdleThrottle
    /\ IdleTimer
    /\ IdleManager
    /\ IdleGlobal

NextGlobal ==
    \/ \E args \in GlobalArgs : GlGet(args)
    \/ \E n \in Names, args \in GlobalArgs : GlTimer(n, args)
    \/ \E gt \in gtimers : GlStart(gt)
    \/ \E gt \in gtimers : GlStop(gt)

SpecGlobal == InitGlobal /\ [][NextGlobal]_vars

\* Code that times its regions with `with manager(name):` statements only.
NextScoped ==
    \/ \E n \in ScopeNames : WithEnter(n, MaxScopes)
    \/ WithExit
    \/ WithTick

SpecScoped == Init /\ [][NextScoped]_vars

\* ------------------------------------------------------------------ claims
\* Helpers over the call history of the throttle.
Fired(i) == calls[i].invoked # None
CallIdx == 1..Len(calls)
Period == thr.throttle_period
LastCall(h) == h[Len(h)]

\* C1: a rate_limit call at clock value now on a throttle with last-fire time
\* L and period P invokes the action if and only if now - L > P; when it
\* invokes, the last-fire time becomes now and the action gets the given
\* arguments; when it suppresses, the last-fire time is unchanged.
C1_RateLimitContract ==
    [][calls' # calls =>
        LET e == LastCall(calls')
            L == thr.time_of_last_call IN
        /\ (e.invoked # None) <=> (wall - L > thr.throttle_period)
        /\ e.invoked # None =>
              /\ thr'.time_of_last_call = wall
              /\ e.invoked = Some([func |-> e.func, args |-> e.args])
        /\ e.invoked = None => thr'.time_of_last_call = L
        /\ thr'.throttle_period = thr.throttle_period]_vars

\* C1 witness: one call was suppressed exactly at now - L = P and another fired.
C1_Witness ==
    /\ \E i \in CallIdx : ~Fired(i) /\ calls[i].t - calls[i].before = Period
    /\ \E j \in CallIdx : Fired(j) /\ calls[j].after = calls[j].t

\* C2: any two successive executions of the action happen at clock values
\* that differ by strictly more than the period.
C2_AtMostOncePerPeriod ==
    \A i, j \in CallIdx :
        (i < j /\ Fired(i) /\ Fired(j)) => calls[j].t - calls[i].t > Period

\* C2 witness: two executions with a suppressed call between them.
C2_Witness ==
    /\ Period >= 1
    /\ \E i, k, j \in CallIdx : i < k /\ k < j /\ Fired(i) /\ ~Fired(k) /\ Fired(j)

CloseSpaced == \A i \in CallIdx : i > 1 => calls[i].t - calls[i - 1].t < Period
FarSpaced == \A i \in CallIdx : i > 1 => calls[i].t - calls[i - 1].t > Period
WithinFirst == \A i \in CallIdx : calls[i].t - calls[1].t <= Period
OnlyFirstFired == \A i \in CallIdx : Fired(i) <=> i = 1
AllFired == \A i \in CallIdx : Fired(i)

\* C3 as stated: on a fresh throttle, calls each less than p after the previous
\* one fire exactly once (the first); calls each more than p after the
\* previous one all fire.
C3_AsStated ==
    Len(calls) >= 1 =>
        /\ CloseSpaced => OnlyFirstFired
        /\ FarSpaced => AllFired

\* C3 amended: on a fresh throttle whose first call reads a clock value
\* greater than p, calls that all come at most p after the first call fire
\* exactly once (the first); calls each more than p after the previous one
\* all fire.
C3_Amended ==
    (Len(calls) >= 1 /\ calls[1].t > Period) =>
        /\ WithinFirst => OnlyFirstFired
        /\ FarSpaced => AllFired

\* C3 witness: three calls spread over exactly one period, only the first fired.
C3_Witness ==
    /\ Len(calls) = 3
    /\ Period >= 2
    /\ calls[1].t > Period
    /\ calls[2].t > calls[1].t
    /\ calls[3].t - calls[1].t = Period
    /\ OnlyFirstFired

\* C4 as stated: with period 0 every rate_limit call invokes the action.
C4_AsStated == Period = 0 => AllFired

\* C4 amended: with period 0 the first call fires, and a later call fires if
\* and only if its clock reading is strictly greater than that of the call
\* before it; a call that reads the same clock value is suppressed.
C4_Amended ==
    Period = 0 =>
        \A i \in CallIdx : Fired(i) <=> (i = 1 \/ calls[i].t > calls[i - 1].t)

\* C4 witness: period 0, a call fired, the next at the same clock value was
\* suppressed, and a later one fired again.
C4_Witness ==
    /\ Period = 0
    /\ Len(calls) = 3
    /\ Fired(1) /\ ~Fired(2) /\ Fired(3)
    /\ calls[2].t = calls[1].t

\* C5: in every interleaving of wrapper calls and direct rate_limit calls the
\* calls that fire, the invocations made and the last-fire time are those of
\* the same sequence made of direct rate_limit calls only.
C5_WrapperEquivalent ==
    /\ thr.time_of_last_call = refLast
    /\ \A i \in CallIdx : calls[i].invoked = calls[i].refInvoked

\* C5 witness: a wrapper call that fired, a direct call in between, and a
\* wrapper call that was suppressed.
C5_Witness ==
    \E i, j, k \in CallIdx :
        /\ i < j /\ j < k
        /\ calls[i].via = "wrapped" /\ Fired(i)
        /\ calls[j].via = "direct"
        /\ calls[k].via = "wrapped" /\ ~Fired(k)

\* Helpers over the history of the standalone timer.
Running(t) == t.start_time # None
TmStep == tmLast'.seq # tmLast.seq
RECURSIVE SumFrom(_, _)
SumFrom(h, i) == IF i > Len(h) THEN 0 ELSE h[i] + SumFrom(h, i + 1)
RECURSIVE SumSqFrom(_, _)
SumSqFrom(h, i) == IF i > Len(h) THEN 0 ELSE h[i] * h[i] + SumSqFrom(h, i + 1)

\* C6: start() on a running timer raises the already-running error and stop()
\* on a timer that is not running raises the not-running error; in both cases
\* no field of the timer changes and nothing is printed; start() on a stopped
\* timer and stop() on a running one succeed, so the successful operations
\* are alternately a start and a stop, beginning with a start.
C6_StartStopErrors ==
    [][TmStep =>
        LET op == tmLast'.op
            err == tmLast'.err IN
        /\ (op \in {"start", "enter"} /\ Running(timer)) =>
              /\ err = Some(ErrRunning)
              /\ timer' = timer /\ out' = out /\ okOps' = okOps
        /\ (op \in {"stop", "exit"} /\ ~Running(timer)) =>
              /\ err = Some(ErrNotRunning)
              /\ timer' = timer /\ out' = out /\ okOps' = okOps
        /\ (op \in {"start", "enter"} /\ ~Running(timer)) =>
              /\ err = None
              /\ timer'.start_time = Some(perf)
        /\ (op \in {"stop", "exit"} /\ Running(timer)) =>
              /\ err \notin {Some(ErrRunning), Some(ErrNotRunning)}
              /\ ~Running(timer')
        /\ okOps' # okOps =>
              LastCall(okOps') = IF Len(okOps) % 2 = 0 THEN "start" ELSE "stop"]_vars

\* C6 witness: after a completed span and a failed second start, a stop of the
\* already stopped timer has just failed with the not-running error.
C6_Witness ==
    /\ tmLast.op = "stop"
    /\ tmLast.err = Some(ErrNotRunning)
    /\ Len(spans) >= 1
    /\ ~Running(timer)
    /\ timer.elapsed_time # None

\* C7: with warmup count W at creation and K completed spans, the sample count
\* is K while K <= W and K - W once K > W, when the sums are those of the
\* spans W+1..K alone; the counters are zeroed at most once (for W > 0 exactly
\* when K first exceeds W, and warmup is 0 from then on) and never when W = 0.
C7_WarmupPolicy ==
    LET K == Len(spans)
        W == warmup0 IN
    /\ K <= W =>
          /\ timer.n_samples = K
          /\ timer.warmup = W
          /\ resets = 0
    /\ K > W =>
          /\ timer.n_samples = K - W
          /\ timer.total_elapsed_time = SumFrom(spans, W + 1)
          /\ timer.sum_elapsed_time_squared = SumSqFrom(spans, W + 1)
          /\ timer.warmup = 0
          /\ resets = IF W > 0 THEN 1 ELSE 0

\* C7 witness: a timer created with warmup 2 has completed 4 spans of
\* different lengths and counts the last two.
C7_Witness ==
    /\ warmup0 = 2
    /\ Len(spans) = 4
    /\ spans[2] > 0
    /\ spans[3] # spans[4]
    /\ timer.n_samples = 2
    /\ resets = 1

\* Helpers over the manager.
MgStep(op) == perf' = perf /\ mgLast'.op = op
TimerRunning(m, n) == Has(m, n) /\ Running(m.timers[n])
Top(stack) == stack[Len(stack)]

\* C8 as stated: the num_calls of every timer of the manager is the number of
\* stop() calls completed for its name.
C8_AsStated ==
    \A n \in DOMAIN mgr.timers : num_calls(mgr.timers[n]) = completed[n]

\* C9: manager.stop(name, indent) on a name never created raises the not-found
\* error and changes nothing; on a known name whose timer is not running it
\* raises the timer's not-running error, the manager-level throttle is not
\* touched and nothing is printed; on a running timer it stops the timer and
\* then the manager-level throttle of that name decides whether the summary
\* of the stopped timer is printed with the given indent.
C9_ManagerStop ==
    [][MgStep("stop") =>
        LET n == Val(mgLast'.name)
            err == mgLast'.err IN
        /\ ~Has(mgr, n) =>
              /\ err = Some(ErrNotFound(n))
              /\ mgr' = mgr /\ out' = out
        /\ (Has(mgr, n) /\ ~TimerRunning(mgr, n)) =>
              /\ err = Some(ErrNotRunning)
              /\ mgr'.throttles = mgr.throttles
              /\ mgr' = mgr /\ out' = out
        /\ TimerRunning(mgr, n) =>
              LET fire == wall - mgr.throttles[n].time_of_last_call
                             > mgr.throttles[n].throttle_period
                  t == mgr'.timers[n] IN
              /\ ~Running(t)
              /\ t.elapsed_time = Some(perf - Val(mgr.timers[n].start_time))
              /\ mgr'.throttles[n].time_of_last_call =
                    IF fire THEN wall ELSE mgr.throttles[n].time_of_last_call
              /\ \A k \in Names \ {n} :
                    Has(mgr, k) => /\ mgr'.throttles[k] = mgr.throttles[k]
                                   /\ mgr'.timers[k] = mgr.timers[k]
              /\ ~fire => out' = out /\ err = None
              /\ (fire /\ err = None) =>
                    out' = Append(out, [indent |-> Val(mgLast'.indent),
                                        text |-> [label |-> Some(n),
                                                  stats |-> t.n_samples > 1]])
              /\ (fire /\ err # None) => err = Some(ErrZeroDivision) /\ out' = out]_vars

\* C9 witness: a stop of a known timer that is not running has just failed at
\* a moment when the manager-level throttle of that name would have fired.
C9_Witness ==
    /\ mgLast.op = "stop"
    /\ mgLast.err = Some(ErrNotRunning)
    /\ LET n == Val(mgLast.name) IN
       /\ Has(mgr, n)
       /\ mgr.timers[n].n_samples >= 1
       /\ wall - mgr.throttles[n].time_of_last_call > mgr.throttles[n].throttle_period

\* C10: entering a manager scope with no pending active name raises the
\* no-active-timer error and changes nothing; with pending name n whose timer
\* is not running it starts timer n and pushes n on the call stack; when
\* timer n is already running it raises the already-running error and the
\* call stack and the rest of the manager stay as they were.
C10_ManagerEnter ==
    [][MgStep("enter") =>
        LET err == mgLast'.err IN
        /\ mgr.active_timer_name = None =>
              /\ err = Some(ErrNoActive)
              /\ mgr' = mgr /\ out' = out
        /\ mgr.active_timer_name # None =>
              LET n == Val(mgr.active_timer_name) IN
              /\ Has(mgr, n)
              /\ TimerRunning(mgr, n) =>
                    /\ err = Some(ErrRunning)
                    /\ mgr'.call_stack = mgr.call_stack
                    /\ mgr' = mgr /\ out' = out
              /\ ~TimerRunning(mgr, n) =>
                    /\ err = None
                    /\ mgr'.timers[n].start_time = Some(perf)
                    /\ mgr'.call_stack = Append(mgr.call_stack, n)
                    /\ mgr'.active_timer_name = mgr.active_timer_name
                    /\ out' = out]_vars

\* C10 witness: entering a scope for the name of the innermost open scope has
\* just failed with the already-running error, the stack still holding that
\* one scope.
C10_Witness ==
    /\ mgLast.op = "enter"
    /\ mgLast.err = Some(ErrRunning)
    /\ Len(mgr.call_stack) = 1
    /\ mgr.active_timer_name = Some(Top(mgr.call_stack))

\* The names of the open with-blocks, outermost first.
OpenNames == [i \in 1..Len(scopes) |-> scopes[i].name]

\* C11: __exit__ on a non-empty call stack removes the name of the most
\* recently entered with-block that is still open, stops the timer of exactly
\* that name, prints (when the throttle lets it) with an indent equal to the
\* stack depth after the removal, and on returning leaves as pending active
\* name the new stack top, or None when the stack is empty; in every state
\* the call stack lists the open with-blocks, innermost on top.
C11_ScopeExitLIFO ==
    /\ [](mgr.call_stack = OpenNames)
    /\ [][(MgStep("exit") /\ scopes # <<>>) =>
            LET n == Top(scopes).name
                d == Len(scopes) - 1
                err == mgLast'.err IN
            /\ mgr'.call_stack = SubSeq(OpenNames, 1, d)
            /\ \A k \in DOMAIN mgr.timers \ {n} :
                  /\ mgr'.timers[k] = mgr.timers[k]
                  /\ mgr'.throttles[k] = mgr.throttles[k]
            /\ TimerRunning(mgr, n) =>
                  /\ ~Running(mgr'.timers[n])
                  /\ mgr'.timers[n].elapsed_time =
                        Some(perf - Val(mgr.timers[n].start_time))
                  /\ err \in {None, Some(ErrZeroDivision)}
            /\ out' # out =>
                  /\ Len(out') = Len(out) + 1
                  /\ LastCall(out').indent = d
                  /\ LastCall(out').text.label = Some(n)
            /\ err = None =>
                  /\ TimerRunning(mgr, n)
                  /\ mgr'.active_timer_name =
                        IF d > 0 THEN Some(OpenNames[d]) ELSE None]_vars

\* C11 witness: the inner of two nested with-blocks on different names has
\* just been left: its line was printed with indent 1 and the pending active
\* name is the outer name again, though the last manager(name) named the inner.
C11_Witness ==
    /\ mgLast.op = "exit"
    /\ mgLast.err = None
    /\ Len(mgr.call_stack) = 1
    /\ mgr.active_timer_name = Some(mgr.call_stack[1])
    /\ out # <<>>
    /\ LastCall(out).indent = 1
    /\ LastCall(out).text.label # mgr.active_timer_name
    /\ TimerRunning(mgr, mgr.call_stack[1])

\* Whether the with statement of name k left last was directly inside the one
\* of name n left last, and both names have no open with statement now.
NestedIn(k, n) ==
    /\ k # n
    /\ closed[k] # None /\ closed[n] # None
    /\ Val(closed[k]).parent = Some(Val(closed[n]).id)
    /\ \A i \in 1..Len(scopes) : scopes[i].name \notin {k, n}
ScopeLength(n) == Val(closed[n]).left - Val(closed[n]).entered

\* C12: when a with statement on one name ran inside a with statement on
\* another name and both have been left, the total_run_time of the inner
\* timer is the clock advance between the inner enter and exit, that of the
\* outer timer is the clock advance between the outer enter and exit, and the
\* outer value is at least the inner one.
C12_NestedTotals ==
    \A k, n \in ScopeNames :
        NestedIn(k, n) =>
            /\ total_run_time(mgr.timers[k]) = Some(ScopeLength(k))
            /\ total_run_time(mgr.timers[n]) = Some(ScopeLength(n))
            /\ Val(total_run_time(mgr.timers[n])) >= Val(total_run_time(mgr.timers[k]))

\* C12 witness: the outer block ran for a tick before, a tick during and a
\* tick after the inner block.
C12_Witness ==
    \E k, n \in ScopeNames :
        /\ NestedIn(k, n)
        /\ Val(closed[n]).entered < Val(closed[k]).entered
        /\ Val(closed[k]).entered < Val(closed[k]).left
        /\ Val(closed[k]).left < Val(closed[n]).left
        /\ total_run_time(mgr.timers[n]) = Some(3)
        /\ total_run_time(mgr.timers[k]) = Some(1)

\* C13: every call of get_global_timer_manager, direct or made by the
\* GlobalTimer constructor, returns the object the first call built; its
\* interval, unit and scale are the arguments of the first call whatever the
\* later calls pass; before the first call there is no global manager.
C13_GlobalSingleton ==
    /\ glLog = <<>> => gtm = None
    /\ glLog # <<>> =>
          LET first == glLog[1] IN
          /\ gtm = Some(first.ret)
          /\ DOMAIN gheap = {first.ret}
          /\ Config(gheap[first.ret]) = first.args
          /\ \A i \in 1..Len(glLog) :
                /\ glLog[i].ret = first.ret
                /\ glLog[i].config = first.args
          /\ \A gt \in gtimers : gt.manager = first.ret

\* C13 witness: after a first call with non-default arguments, a direct call
\* and a GlobalTimer constructor passed other arguments, and the timer of the
\* GlobalTimer has completed a span.
C13_Witness ==
    /\ Len(glLog) = 3
    /\ glLog[1].args # DefaultGlobalArgs
    /\ \E i, j \in 2..3 :
          /\ glLog[i].via = "get" /\ glLog[i].args # glLog[1].args
          /\ glLog[j].via = "GlobalTimer" /\ glLog[j].args # glLog[1].args
    /\ \E gt \in gtimers : gheap[gt.manager].timers[gt.name].n_samples = 1

\* The three with statements of the docstring example, each run once and each
\* printed: y inside x, and z at the top level after x was left.
DocExample(x, y, z) ==
    /\ x # y /\ y # z /\ x # z
    /\ scopes = <<>>
    /\ \A n \in {x, y, z} : closed[n] # None /\ completed[n] = 1
    /\ Val(closed[x]).parent = None
    /\ Val(closed[y]).parent = Some(Val(closed[x]).id)
    /\ Val(closed[z]).parent = None
    /\ Val(closed[z]).id > Val(closed[x]).id
    /\ Len(out) = 3
OutLabels == [i \in 1..Len(out) |-> out[i].text.label]

\* C14 as stated: when timer2 ran inside timer1 and timer3 after timer1, the
\* lines are printed in the order timer1, timer2, timer3, the line of the
\* outer block before that of the block nested in it.
C14_AsStated ==
    \A x, y, z \in ScopeNames :
        DocExample(x, y, z) => OutLabels = <<Some(x), Some(y), Some(z)>>

\* C15 as stated: __exit__ on a manager whose call stack is empty raises the
\* not-found error, the one stop(name) raises for an unknown name, and
\* changes nothing.
C15_AsStated ==
    [][(MgStep("exit") /\ mgr.call_stack = <<>>) =>
          /\ mgLast'.err # None
          /\ \E n \in ScopeNames \cup {"?"} :
                /\ Val(mgLast'.err).cls = ErrNotFound(n).cls
                /\ Val(mgLast'.err).msg = ErrNotFound(n).msg
          /\ mgr' = mgr
          /\ out' = out]_vars

C17_TotalRunTimeFrame ==
    /\ [](spans = <<>> => total_run_time(timer) = None)
    /\ [][IF TmStep /\ tmLast'.op \in {"stop", "exit"} /\ Running(timer)
          THEN total_run_time(timer') = Some(perf - Val(timer.start_time))
          ELSE total_run_time(timer') = total_run_time(timer)]_vars

\* C17 witness: a timer whose counters were zeroed by the stop() of a span of
\* positive length has been started again and still reports that span.
C17_Witness ==
    /\ tmLast.op = "start"
    /\ tmLast.err = None
    /\ Running(timer)
    /\ resets = 1
    /\ Len(spans) = warmup0 + 1
    /\ total_run_time(timer) = Some(LastCall(spans))
    /\ LastCall(spans) > 0
    /\ perf > Val(timer.start_time)

\* The state predicates the manager is to satisfy under with statements.
StackDistinct ==
    \A i, j \in 1..Len(mgr.call_stack) :
        i # j => mgr.call_stack[i] # mgr.call_stack[j]
OnStack(n) == \E i \in 1..Len(mgr.call_stack) : mgr.call_stack[i] = n
RunningIffOnStack ==
    \A n \in ScopeNames : TimerRunning(mgr, n) <=> OnStack(n)
StackRegistered ==
    \A i \in 1..Len(mgr.call_stack) : Has(mgr, mgr.call_stack[i])
SameKeys == DOMAIN mgr.timers = DOMAIN mgr.throttles
Balanced == scopes = <<>> /\ mgLast.op = "exit"
AtRest ==
    /\ mgr.call_stack = <<>>
    /\ mgr.active_timer_name = None
    /\ \A n \in ScopeNames : ~TimerRunning(mgr, n)
\* A registered timer stays registered, with the settings it was created with
\* and the spans it has counted.
TimersKept ==
    \A n \in DOMAIN mgr.timers :
        /\ n \in DOMAIN mgr'.timers
        /\ mgr'.timers[n].msg = mgr.timers[n].msg
        /\ mgr'.timers[n].print_interval = mgr.timers[n].print_interval
        /\ mgr'.timers[n].unit = mgr.timers[n].unit
        /\ mgr'.timers[n].scale = mgr.timers[n].scale
        /\ mgr'.timers[n].n_samples >= mgr.timers[n].n_samples
        /\ mgr'.throttles[n].throttle_period = mgr.throttles[n].throttle_period

\* C18 as stated: under with statements only, in every state the names on the
\* call stack are pairwise distinct, a timer is running exactly when its name
\* is on the call stack, every name on the stack is registered, the timers
\* and the manager-level throttles have the same names, and a registered
\* timer is never removed or replaced; once every with statement entered has
\* been left, the call stack is empty, the pending active name is None and no
\* timer is running.
C18_AsStated ==
    /\ [](StackDistinct /\ RunningIffOnStack /\ StackRegistered /\ SameKeys)
    /\ [][TimersKept]_vars
    /\ [](Balanced => AtRest)

\* C19: when the timer of the innermost open with-block has been stopped by a
\* direct stop(name), leaving the block raises the not-running error; the
\* name is off the call stack all the same, and the pending active name keeps
\* the value it had instead of becoming the new stack top or None; nothing
\* else changes and nothing is printed.
C19_ExitNotAtomic ==
    [][(MgStep("exit") /\ mgr.call_stack # <<>>
           /\ ~TimerRunning(mgr, Top(mgr.call_stack))) =>
          /\ mgLast'.err = Some(ErrNotRunning)
          /\ mgr'.call_stack = SubSeq(mgr.call_stack, 1, Len(mgr.call_stack) - 1)
          /\ mgr' = [mgr EXCEPT !.call_stack = mgr'.call_stack]
          /\ mgr'.active_timer_name = mgr.active_timer_name
          /\ out' = out]_vars

\* C19 witness: the inner of two nested blocks was stopped directly and then
\* left: the exit has just raised the not-running error, the stack holds the
\* outer name alone and the pending active name is still the inner name.
C19_Witness ==
    /\ mgLast.op = "exit"
    /\ mgLast.err = Some(ErrNotRunning)
    /\ Len(mgr.call_stack) = 1
    /\ mgr.active_timer_name # None
    /\ mgr.active_timer_name # Some(mgr.call_stack[1])
    /\ completed[Val(mgr.active_timer_name)] >= 1
    /\ TimerRunning(mgr, mgr.call_stack[1])

\* The one set of per-call settings of Overrides that is not empty, and
\* whether a timer was created with it (it names a unit the manager of the
\* model never has as its default).
TheOverride == CHOOSE ov \in Overrides : ov # NoOverride
CreatedWithOverride(t) == t.unit = Val(TheOverride.unit)

LastSuppressed == calls # <<>> /\ calls[1].invoked = None
LastFired == calls # <<>> /\ calls[1].invoked # None

\* C21: when the clock keeps advancing and the throttle keeps being called,
\* every suppressed call is eventually followed by a call that invokes the
\* action, and the action is invoked again and again, for every period.
C21_NeverSuppressedForever ==
    /\ LastSuppressed ~> LastFired
    /\ []<>LastFired

\* C21 witness: on a throttle with a positive period that has fired before,
\* a wrapped call has just been suppressed exactly one period after the last
\* firing, the clock reading being at its bound with the origin moved.
C21_Witness ==
    /\ LastSuppressed
    /\ calls[1].via = "wrapped"
    /\ calls[1].seq = 1
    /\ Period >= 1
    /\ wall = MaxClock
    /\ thr.time_of_last_call > WallEpoch
    /\ wall - thr.time_of_last_call = Period

====
